---- MODULE Spec2Model ----
(***************************************************************************)
(* Connect Four with a minimax / alpha-beta opponent (class ConnectFour of *)
(* sourcecode.py).  The grid is board[row][col] with row 0 at the top;     *)
(* cells hold 0 (empty), 1 (human, PlayerA) or 2 (AI, PlayerB).            *)
(***************************************************************************)
EXTENDS Integers, Sequences, FiniteSets, TLC

VARIABLES rows, cols, board, current_player, game_over, winner, pc, last

vars == <<rows, cols, board, current_player, game_over, winner, pc, last>>

(***************************************************************************)
(* Program constants.                                                      *)
(***************************************************************************)
DEFAULT_ROWS == 6
DEFAULT_COLS == 7
DEFAULT_DEPTH == 4
WIN_SCORE == 1000000000
FOUR_SCORE == 100
THREE_SCORE == 5
TWO_SCORE == 2
OPP_THREE_PENALTY == 4
CENTER_WEIGHT == 3

\* float('inf'): larger than every score minimax can return.
Inf == 2 * WIN_SCORE

\* Python's None, the column of a leaf result.
None == -1000

Max(a, b) == IF a >= b THEN a ELSE b
Min(a, b) == IF a <= b THEN a ELSE b

(***************************************************************************)
(* Board                                                                    *)
(***************************************************************************)
EmptyBoard(r, c) == [row \in 0..(r - 1) |-> [col \in 0..(c - 1) |-> 0]]

is_valid_move(b, col) == 0 <= col /\ col < cols /\ b[0][col] = 0

RECURSIVE ValidFrom(_, _)
ValidFrom(b, col) ==
    IF col >= cols THEN <<>>
    ELSE IF is_valid_move(b, col) THEN <<col>> \o ValidFrom(b, col + 1)
    ELSE ValidFrom(b, col + 1)

get_valid_moves(b) == ValidFrom(b, 0)

\* The scan of range(rows-1, -1, -1) for the first empty cell of col.
RECURSIVE OpenRowFrom(_, _, _)
OpenRowFrom(b, col, row) ==
    IF row < 0 THEN -1
    ELSE IF b[row][col] = 0 THEN row
    ELSE OpenRowFrom(b, col, row - 1)

get_next_open_row(b, col) == OpenRowFrom(b, col, rows - 1)

\* Mutant of DropFrom: the scan runs over range(rows), top row first.
RECURSIVE DropDownFrom(_, _, _, _)
DropDownFrom(b, col, row, player) ==
    IF row >= rows THEN [ok |-> FALSE, board |-> b]
    ELSE IF b[row][col] = 0
         THEN [ok |-> TRUE, board |-> [b EXCEPT ![row][col] = player]]
         ELSE DropDownFrom(b, col, row + 1, player)

DropFromTop(b, col, row, player) == DropDownFrom(b, col, 0, player)

\* The loop of make_move over range(rows-1, -1, -1): the returned boolean
\* and the grid afterwards.
RECURSIVE DropFrom(_, _, _, _)
DropFrom(b, col, row, player) ==
    IF row < 0 THEN [ok |-> FALSE, board |-> b]
    ELSE IF b[row][col] = 0
         THEN [ok |-> TRUE, board |-> [b EXCEPT ![row][col] = player]]
         ELSE DropFrom(b, col, row - 1, player)

\* Mutant of make_move: only the range of col is checked, and a full column
\* takes the piece in its top cell.
make_moveOverwrite(b, col, player) ==
    IF ~(0 <= col /\ col < cols) THEN [ok |-> FALSE, board |-> b]
    ELSE IF b[0][col] # 0 THEN [ok |-> TRUE, board |-> [b EXCEPT ![0][col] = player]]
    ELSE DropFrom(b, col, rows - 1, player)

make_move(b, col, player) ==
    IF ~is_valid_move(b, col) THEN [ok |-> FALSE, board |-> b]
    ELSE DropFrom(b, col, rows - 1, player)

CheckHorizontal(b, player) ==
    \E row \in 0..(rows - 1) : \E col \in 0..(cols - 4) :
        \A i \in 0..3 : b[row][col + i] = player

CheckVertical(b, player) ==
    \E row \in 0..(rows - 4) : \E col \in 0..(cols - 1) :
        \A i \in 0..3 : b[row + i][col] = player

CheckDiagDown(b, player) ==
    \E row \in 0..(rows - 4) : \E col \in 0..(cols - 4) :
        \A i \in 0..3 : b[row + i][col + i] = player

\* Mutant of CheckDiagUp: the column range starts one too far right.
CheckDiagUpFrom4(b, player) ==
    \E row \in 0..(rows - 4) : \E col \in 4..(cols - 1) :
        \A i \in 0..3 : b[row + i][col - i] = player

CheckDiagUp(b, player) ==
    \E row \in 0..(rows - 4) : \E col \in 3..(cols - 1) :
        \A i \in 0..3 : b[row + i][col - i] = player

check_winner(b, player) ==
    \/ CheckHorizontal(b, player)
    \/ CheckVertical(b, player)
    \/ CheckDiagDown(b, player)
    \/ CheckDiagUp(b, player)

is_board_full(b) == \A col \in 0..(cols - 1) : b[0][col] # 0

(***************************************************************************)
(* Static evaluation                                                        *)
(***************************************************************************)
Hit(x, v) == IF x = v THEN 1 ELSE 0

\* window.count(v) for a window of four cells.
Count(window, v) ==
    Hit(window[1], v) + Hit(window[2], v) + Hit(window[3], v) + Hit(window[4], v)

evaluate_window(window, player) ==
    LET opponent == 3 - player
        own == Count(window, player)
        empty == Count(window, 0)
        s1 == IF own = 4 THEN FOUR_SCORE
              ELSE IF own = 3 /\ empty = 1 THEN THREE_SCORE
              ELSE IF own = 2 /\ empty = 2 THEN TWO_SCORE
              ELSE 0
        s2 == IF Count(window, opponent) = 3 /\ empty = 1
              THEN OPP_THREE_PENALTY ELSE 0
    IN  s1 - s2

RECURSIVE SumOver(_, _, _)
SumOver(F(_), lo, hi) == IF lo > hi THEN 0 ELSE F(lo) + SumOver(F, lo + 1, hi)

\* The centre-column term of evaluate_board.
CenterScore(b, player) ==
    LET center_col == cols \div 2
        center_count == SumOver(LAMBDA row : Hit(b[row][center_col], player), 0, rows - 1)
    IN  center_count * CENTER_WEIGHT

\* The four window loops of evaluate_board.
WindowScore(b, player) ==
    LET H(row) == SumOver(LAMBDA col :
                    evaluate_window(<<b[row][col], b[row][col + 1],
                                      b[row][col + 2], b[row][col + 3]>>, player),
                    0, cols - 4)
        V(row) == SumOver(LAMBDA col :
                    evaluate_window(<<b[row][col], b[row + 1][col],
                                      b[row + 2][col], b[row + 3][col]>>, player),
                    0, cols - 1)
        D(row) == SumOver(LAMBDA col :
                    evaluate_window(<<b[row][col], b[row + 1][col + 1],
                                      b[row + 2][col + 2], b[row + 3][col + 3]>>, player),
                    0, cols - 4)
        U(row) == SumOver(LAMBDA col :
                    evaluate_window(<<b[row][col], b[row + 1][col - 1],
                                      b[row + 2][col - 2], b[row + 3][col - 3]>>, player),
                    3, cols - 1)
    IN  SumOver(H, 0, rows - 1)
        + SumOver(V, 0, rows - 4)
        + SumOver(D, 0, rows - 4)
        + SumOver(U, 0, rows - 4)

\* Mutant of evaluate_board: the centre-column term is left out.
evaluate_boardNoCenter(b, player) == WindowScore(b, player)

evaluate_board(b, player) == CenterScore(b, player) + WindowScore(b, player)

(***************************************************************************)
(* Search.  Every result carries the grid as the call leaves it, so that   *)
(* the place / undo pairs of the code are part of the model.               *)
(***************************************************************************)
RECURSIVE minimax(_, _, _, _, _)
RECURSIVE MaxLoop(_, _, _, _, _, _, _, _)
RECURSIVE MinLoop(_, _, _, _, _, _, _, _)

\* Mutant of MaxLoop: the pruning break comes before the undo.
MaxLoopBreakFirst(b, depth, alpha, beta, moves, i, value, best_column) ==
    IF i > Len(moves) THEN [col |-> best_column, score |-> value, board |-> b]
    ELSE LET col == moves[i]
             row == get_next_open_row(b, col)
             r == minimax([b EXCEPT ![row][col] = 2], depth - 1, alpha, beta, FALSE)
             undone == [r.board EXCEPT ![row][col] = 0]
             new_score == r.score
             value2 == IF new_score > value THEN new_score ELSE value
             best2 == IF new_score > value THEN col ELSE best_column
             alpha2 == Max(alpha, value2)
         IN  IF alpha2 >= beta
             THEN [col |-> best2, score |-> value2, board |-> r.board]
             ELSE MaxLoop(undone, depth, alpha2, beta, moves, i + 1, value2, best2)

\* Mutant of MaxLoop: the break tests value against alpha, not alpha
\* against beta.
MaxLoopCutOnAlpha(b, depth, alpha, beta, moves, i, value, best_column) ==
    IF i > Len(moves) THEN [col |-> best_column, score |-> value, board |-> b]
    ELSE LET col == moves[i]
             row == get_next_open_row(b, col)
             r == minimax([b EXCEPT ![row][col] = 2], depth - 1, alpha, beta, FALSE)
             undone == [r.board EXCEPT ![row][col] = 0]
             new_score == r.score
             value2 == IF new_score > value THEN new_score ELSE value
             best2 == IF new_score > value THEN col ELSE best_column
             alpha2 == Max(alpha, value2)
         IN  IF value2 >= alpha
             THEN [col |-> best2, score |-> value2, board |-> undone]
             ELSE MaxLoop(undone, depth, alpha2, beta, moves, i + 1, value2, best2)

\* Mutant of MaxLoop: an equal score replaces the best column too.
MaxLoopLastBest(b, depth, alpha, beta, moves, i, value, best_column) ==
    IF i > Len(moves) THEN [col |-> best_column, score |-> value, board |-> b]
    ELSE LET col == moves[i]
             row == get_next_open_row(b, col)
             r == minimax([b EXCEPT ![row][col] = 2], depth - 1, alpha, beta, FALSE)
             undone == [r.board EXCEPT ![row][col] = 0]
             new_score == r.score
             value2 == IF new_score >= value THEN new_score ELSE value
             best2 == IF new_score >= value THEN col ELSE best_column
             alpha2 == Max(alpha, value2)
         IN  IF alpha2 >= beta
             THEN [col |-> best2, score |-> value2, board |-> undone]
             ELSE MaxLoop(undone, depth, alpha2, beta, moves, i + 1, value2, best2)

\* The maximizing loop from its i-th move on.
MaxLoop(b, depth, alpha, beta, moves, i, value, best_column) ==
    IF i > Len(moves) THEN [col |-> best_column, score |-> value, board |-> b]
    ELSE LET col == moves[i]
             row == get_next_open_row(b, col)
             r == minimax([b EXCEPT ![row][col] = 2], depth - 1, alpha, beta, FALSE)
             undone == [r.board EXCEPT ![row][col] = 0]
             new_score == r.score
             value2 == IF new_score > value THEN new_score ELSE value
             best2 == IF new_score > value THEN col ELSE best_column
             alpha2 == Max(alpha, value2)
         IN  IF alpha2 >= beta
             THEN [col |-> best2, score |-> value2, board |-> undone]
             ELSE MaxLoop(undone, depth, alpha2, beta, moves, i + 1, value2, best2)

\* The minimizing loop from its i-th move on.
MinLoop(b, depth, alpha, beta, moves, i, value, best_column) ==
    IF i > Len(moves) THEN [col |-> best_column, score |-> value, board |-> b]
    ELSE LET col == moves[i]
             row == get_next_open_row(b, col)
             r == minimax([b EXCEPT ![row][col] = 1], depth - 1, alpha, beta, TRUE)
             undone == [r.board EXCEPT ![row][col] = 0]
             new_score == r.score
             value2 == IF new_score < value THEN new_score ELSE value
             best2 == IF new_score < value THEN col ELSE best_column
             beta2 == Min(beta, value2)
         IN  IF alpha >= beta2
             THEN [col |-> best2, score |-> value2, board |-> undone]
             ELSE MinLoop(undone, depth, alpha, beta2, moves, i + 1, value2, best2)

minimax(b, depth, alpha, beta, maximizing_player) ==
    LET valid_moves == get_valid_moves(b)
        is_terminal == check_winner(b, 1) \/ check_winner(b, 2) \/ is_board_full(b)
        first == IF Len(valid_moves) > 0 THEN valid_moves[1] ELSE 0
    IN  IF depth = 0 \/ is_terminal
        THEN IF check_winner(b, 2) THEN [col |-> None, score |-> WIN_SCORE, board |-> b]
             ELSE IF check_winner(b, 1) THEN [col |-> None, score |-> -WIN_SCORE, board |-> b]
             ELSE IF is_board_full(b) THEN [col |-> None, score |-> 0, board |-> b]
             ELSE [col |-> None, score |-> evaluate_board(b, 2), board |-> b]
        ELSE IF maximizing_player
             THEN MaxLoop(b, depth, alpha, beta, valid_moves, 1, -Inf, first)
             ELSE MinLoop(b, depth, alpha, beta, valid_moves, 1, Inf, first)

\* The immediate-win / immediate-block scan of get_ai_move for `player`.
RECURSIVE ScanLoop(_, _, _, _)
ScanLoop(b, player, moves, i) ==
    IF i > Len(moves) THEN [col |-> None, board |-> b]
    ELSE LET col == moves[i]
             row == get_next_open_row(b, col)
             placed == [b EXCEPT ![row][col] = player]
             undone == [placed EXCEPT ![row][col] = 0]
         IN  IF check_winner(placed, player)
             THEN [col |-> col, board |-> undone]
             ELSE ScanLoop(undone, player, moves, i + 1)

\* Mutant of get_ai_move: no scan for PlayerB's immediate win.
get_ai_moveNoWinScan(b, depth) ==
    LET block == ScanLoop(b, 1, get_valid_moves(b), 1)
    IN  IF block.col # None THEN block
        ELSE LET r == minimax(block.board, depth, -Inf, Inf, TRUE)
             IN  [col |-> r.col, board |-> r.board]

\* Mutant of get_ai_move: no scan for PlayerA's immediate win.
get_ai_moveNoBlockScan(b, depth) ==
    LET win == ScanLoop(b, 2, get_valid_moves(b), 1)
    IN  IF win.col # None THEN win
        ELSE LET r == minimax(win.board, depth, -Inf, Inf, TRUE)
             IN  [col |-> r.col, board |-> r.board]

\* Mutant of get_ai_move: the search alone, neither scan.
get_ai_moveSearchOnly(b, depth) ==
    LET r == minimax(b, depth, -Inf, Inf, TRUE)
    IN  [col |-> r.col, board |-> r.board]

get_ai_move(b, depth) ==
    LET win == ScanLoop(b, 2, get_valid_moves(b), 1)
    IN  IF win.col # None THEN win
        ELSE LET block == ScanLoop(win.board, 1, get_valid_moves(win.board), 1)
             IN  IF block.col # None THEN block
                 ELSE LET r == minimax(block.board, depth, -Inf, Inf, TRUE)
                      IN  [col |-> r.col, board |-> r.board]

(***************************************************************************)
(* The state machine.  pc is "idle" while a caller drives the object       *)
(* through its methods, "play_game" inside the loop of play_game and       *)
(* "done" once that loop has exited.  `last` records the most recent call: *)
(* its arguments, what it returned and the grid it started from.           *)
(***************************************************************************)
MaxMoves == 5
MaxFilled == 4
MaxSearchPieces == 3
MaxLookahead == 4
MaxAiPieces == 4
MaxAiDepth == 1
MaxGamePlies == 8
MaxOpeningMoves == 2

Geometries == {<<4, 4>>, <<4, 5>>, <<5, 4>>}
PureGeometries == {<<4, 4>>}
SearchGeometries == {<<4, 4>>}

Cells == (0..(rows - 1)) \X (0..(cols - 1))
Pieces(b) == Cardinality({c \in Cells : b[c[1]][c[2]] # 0})

Call(op, col, player, ok, before) ==
    [op |-> op, col |-> col, player |-> player, depth |-> 0, alpha |-> 0,
     beta |-> 0, maximizing |-> FALSE, ok |-> ok, score |-> 0, before |-> before]

SearchCall(op, depth, alpha, beta, maximizing, col, score, before) ==
    [op |-> op, col |-> col, player |-> 0, depth |-> depth, alpha |-> alpha,
     beta |-> beta, maximizing |-> maximizing, ok |-> FALSE, score |-> score,
     before |-> before]

\* No call on record: the object as the constructor or a sequence of moves
\* left it.
Fresh == Call("init", None, 0, FALSE, <<>>)

\* ConnectFour(r, c).__init__
Construct(r, c) ==
    /\ rows = r
    /\ cols = c
    /\ board = EmptyBoard(r, c)
    /\ current_player = 1
    /\ game_over = FALSE
    /\ winner = None
    /\ last = Fresh

Init == pc = "idle" /\ \E g \in Geometries : Construct(g[1], g[2])

MakeMoveUpTo(n, col, player) ==
    /\ pc = "idle"
    /\ Pieces(board) < n \/ ~is_valid_move(board, col)
    /\ LET r == make_move(board, col, player)
       IN  /\ board' = r.board
           /\ last' = Call("make_move", col, player, r.ok, board)
    /\ UNCHANGED <<rows, cols, current_player, game_over, winner, pc>>

MakeMove(col, player) == MakeMoveUpTo(MaxMoves, col, player)

CheckWinner(player) ==
    /\ pc = "idle"
    /\ last' = Call("check_winner", None, player, check_winner(board, player), board)
    /\ UNCHANGED <<rows, cols, board, current_player, game_over, winner, pc>>

Next == \E col \in (-1)..cols, player \in 1..2 : MakeMove(col, player)

Spec == Init /\ [][Next]_vars

(***************************************************************************)
(* check_winner as a pure function of an arbitrary grid.                   *)
(***************************************************************************)
InitPure ==
    \E g \in PureGeometries :
        /\ rows = g[1]
        /\ cols = g[2]
        /\ current_player = 1
        /\ game_over = FALSE
        /\ winner = None
        /\ pc = "idle"
        /\ \E S \in SUBSET ((0..(g[1] - 1)) \X (0..(g[2] - 1))) :
              /\ Cardinality(S) <= MaxFilled
              /\ \E f \in [S -> 1..2] :
                    board = [row \in 0..(g[1] - 1) |-> [col \in 0..(g[2] - 1) |->
                               IF <<row, col>> \in S THEN f[<<row, col>>] ELSE 0]]
        /\ last = Fresh

NextPure == \E player \in 1..2 : CheckWinner(player)

SpecPure == InitPure /\ [][NextPure]_vars

(***************************************************************************)
(* The search entry points, called on the grids that make_move builds.     *)
(***************************************************************************)
\* The (alpha, beta) pairs minimax is called with.
Windows == {<<-Inf, Inf>>, <<-TWO_SCORE, THREE_SCORE>>}

\* A search is explored from a grid as the constructor or make_move left it.
AtRest == pc = "idle" /\ last = Fresh

\* make_move building the grid a search is called on: a valid move, while
\* the grid holds fewer than n pieces.
BuildUpTo(n, col, player) ==
    /\ pc = "idle"
    /\ Pieces(board) < n
    /\ is_valid_move(board, col)
    /\ board' = make_move(board, col, player).board
    /\ last' = Fresh
    /\ UNCHANGED <<rows, cols, current_player, game_over, winner, pc>>

GetAiMove(depth) ==
    /\ AtRest
    /\ LET r == get_ai_move(board, depth)
       IN  /\ board' = r.board
           /\ last' = SearchCall("get_ai_move", depth, -Inf, Inf, TRUE, r.col, 0, board)
    /\ UNCHANGED <<rows, cols, current_player, game_over, winner, pc>>

Minimax(depth, alpha, beta, maximizing) ==
    /\ AtRest
    /\ LET r == minimax(board, depth, alpha, beta, maximizing)
       IN  /\ board' = r.board
           /\ last' = SearchCall("minimax", depth, alpha, beta, maximizing,
                                 r.col, r.score, board)
    /\ UNCHANGED <<rows, cols, current_player, game_over, winner, pc>>

Place(col, player) == BuildUpTo(MaxSearchPieces, col, player)

InitSearch == pc = "idle" /\ \E g \in SearchGeometries : Construct(g[1], g[2])

\* The depths a search is asked for: the pieces on the grid and the plies
\* looked ahead together stay within MaxLookahead.
Depths == 0..(MaxLookahead - Pieces(board))

NextSearch ==
    \/ \E col \in 0..(cols - 1), player \in 1..2 : Place(col, player)
    \/ \E depth \in Depths : GetAiMove(depth)
    \/ \E depth \in Depths, w \in Windows, maximizing \in BOOLEAN :
          Minimax(depth, w[1], w[2], maximizing)

SpecSearch == InitSearch /\ [][NextSearch]_vars

(***************************************************************************)
(* minimax called the way get_ai_move calls it, with the full window.      *)
(***************************************************************************)
NextPrune ==
    \/ \E col \in 0..(cols - 1), player \in 1..2 : Place(col, player)
    \/ \E depth \in Depths, maximizing \in BOOLEAN :
          Minimax(depth, -Inf, Inf, maximizing)

SpecPrune == InitSearch /\ [][NextPrune]_vars

(***************************************************************************)
(* get_ai_move on its own.                                                  *)
(***************************************************************************)
Setup(col, player) == BuildUpTo(MaxAiPieces, col, player)

InitMove == pc = "idle" /\ \E g \in SearchGeometries : Construct(g[1], g[2])

NextMove ==
    \/ \E col \in 0..(cols - 1), player \in 1..2 : Setup(col, player)
    \/ \E depth \in 0..MaxAiDepth : GetAiMove(depth)

SpecMove == InitMove /\ [][NextMove]_vars

(***************************************************************************)
(* get_ai_move on its own and inside play_game: a caller either drives the *)
(* object itself or hands it to play_game right after construction, as     *)
(* main() does.                                                            *)
(***************************************************************************)

\* What the human types: a column number, or text int() rejects.
Inputs == ((-1)..cols) \cup {None}

\* One pass of the loop of play_game on the human's turn.
HumanTurn(input) ==
    /\ pc = "play_game"
    /\ ~game_over
    /\ current_player = 1
    /\ IF input = None
       THEN /\ last' = Call("bad_input", None, 1, FALSE, board)
            /\ UNCHANGED <<board, current_player, game_over, winner>>
       ELSE IF ~is_valid_move(board, input)
       THEN /\ last' = Call("invalid_move", input, 1, FALSE, board)
            /\ UNCHANGED <<board, current_player, game_over, winner>>
       ELSE /\ Pieces(board) < MaxGamePlies
            /\ LET r == make_move(board, input, 1)
                   won == check_winner(r.board, 1)
               IN  /\ board' = r.board
                   /\ winner' = IF won THEN 1 ELSE winner
                   /\ game_over' = (won \/ is_board_full(r.board))
                   /\ last' = Call("human_turn", input, 1, r.ok, board)
            /\ current_player' = 3 - current_player
    /\ UNCHANGED <<rows, cols, pc>>

\* One pass of the loop of play_game on the AI's turn.
AiTurn ==
    /\ pc = "play_game"
    /\ ~game_over
    /\ current_player = 2
    /\ Pieces(board) < MaxGamePlies
    /\ LET a == get_ai_move(board, DEFAULT_DEPTH)
           r == make_move(a.board, a.col, 2)
           won == check_winner(r.board, 2)
       IN  /\ board' = r.board
           /\ winner' = IF won THEN 2 ELSE winner
           /\ game_over' = (won \/ is_board_full(r.board))
           /\ last' = Call("ai_turn", a.col, 2, r.ok, board)
    /\ current_player' = 3 - current_player
    /\ UNCHANGED <<rows, cols, pc>>

\* The loop condition fails and play_game returns.
Return ==
    /\ pc = "play_game"
    /\ game_over
    /\ pc' = "done"
    /\ UNCHANGED <<rows, cols, board, current_player, game_over, winner, last>>

InitGame ==
    /\ pc \in {"idle", "play_game"}
    /\ \E g \in SearchGeometries : Construct(g[1], g[2])

NextGame ==
    \/ \E col \in 0..(cols - 1), player \in 1..2 : Setup(col, player)
    \/ \E depth \in 0..MaxAiDepth : GetAiMove(depth)
    \/ \E input \in Inputs : HumanTurn(input)
    \/ AiTurn
    \/ Return

SpecGame == InitGame /\ [][NextGame]_vars

(***************************************************************************)
(* The default game, ConnectFour(): the AI asked for the very first move.  *)
(***************************************************************************)
Opening(col, player) == BuildUpTo(MaxOpeningMoves, col, player)

\* get_ai_move() with its default depth, on the grid nobody has played on.
FirstAiMove ==
    /\ board = EmptyBoard(rows, cols)
    /\ GetAiMove(DEFAULT_DEPTH)

InitDefault == pc = "idle" /\ Construct(DEFAULT_ROWS, DEFAULT_COLS)

NextDefault ==
    \/ \E col \in 0..(cols - 1), player \in 1..2 : Opening(col, player)
    \/ FirstAiMove

SpecDefault == InitDefault /\ [][NextDefault]_vars

(***************************************************************************)
(* Properties                                                              *)
(***************************************************************************)
ColumnFull(b, col) == \A row \in 0..(rows - 1) : b[row][col] # 0
InRange(col) == 0 <= col /\ col < cols

\* C5: gravity.  In every column the occupied cells are one block resting
\* on the bottom row: no piece lies directly above an empty cell.
Inv_C5 ==
    \A col \in 0..(cols - 1) : \A row \in 0..(rows - 2) :
        board[row][col] # 0 => board[row + 1][col] # 0

\* A successful make_move that filled its column to the top.
Wit_C5 ==
    /\ last.op = "make_move"
    /\ last.ok
    /\ ColumnFull(board, last.col)

\* C6: make_move returns False and changes nothing when col is out of range
\* or its column is full; when it returns True the column was in range and
\* not full, and the grid differs from the one before in exactly the lowest
\* empty cell of col, which now holds player.
Inv_C6 ==
    last.op = "make_move" =>
        LET invalid == ~InRange(last.col) \/ ColumnFull(last.before, last.col)
        IN  /\ invalid => (~last.ok /\ board = last.before)
            /\ last.ok =>
                 /\ ~invalid
                 /\ \E row \in 0..(rows - 1) :
                      /\ last.before[row][last.col] = 0
                      /\ \A below \in (row + 1)..(rows - 1) :
                           last.before[below][last.col] # 0
                      /\ board = [last.before EXCEPT ![row][last.col] = last.player]

\* make_move refused on a full column.
Wit_C6 ==
    /\ last.op = "make_move"
    /\ InRange(last.col)
    /\ ColumnFull(last.before, last.col)
    /\ ~last.ok
    /\ board = last.before

Directions == {<<0, 1>>, <<1, 0>>, <<1, 1>>, <<1, -1>>}

\* Four consecutive in-bounds cells along one of the four lines, all player's.
HasRun(b, player) ==
    \E row \in 0..(rows - 1) : \E col \in 0..(cols - 1) : \E d \in Directions :
        \A i \in 0..3 :
            /\ row + i * d[1] \in 0..(rows - 1)
            /\ col + i * d[2] \in 0..(cols - 1)
            /\ b[row + i * d[1]][col + i * d[2]] = player

\* C7: check_winner(player) is true exactly when four consecutive in-bounds
\* cells along a horizontal, vertical or diagonal line all hold player.
Inv_C7 ==
    last.op = "check_winner" => (last.ok <=> HasRun(last.before, last.player))

\* check_winner answering True for a run that lies on the down-left diagonal
\* only.
Wit_C7 ==
    /\ last.op = "check_winner"
    /\ last.ok
    /\ ~CheckHorizontal(board, last.player)
    /\ ~CheckVertical(board, last.player)
    /\ ~CheckDiagDown(board, last.player)

SetMax(S) == CHOOSE x \in S : \A y \in S : x >= y
SetMin(S) == CHOOSE x \in S : \A y \in S : x <= y

ValidCols(b) == {col \in 0..(cols - 1) : b[0][col] = 0}
Lowest(b, col) == SetMax({row \in 0..(rows - 1) : b[row][col] = 0})

\* The grid after player's piece has fallen into col.
Child(b, col, player) == [b EXCEPT ![Lowest(b, col)][col] = player]

\* Minimax to the same depth, with the leaves of minimax and no pruning.
RECURSIVE Exhaustive(_, _, _)
Exhaustive(b, depth, maximizing) ==
    IF check_winner(b, 2) THEN WIN_SCORE
    ELSE IF check_winner(b, 1) THEN -WIN_SCORE
    ELSE IF is_board_full(b) THEN 0
    ELSE IF depth = 0 THEN evaluate_board(b, 2)
    ELSE LET scores == {Exhaustive(Child(b, col, IF maximizing THEN 2 ELSE 1),
                                   depth - 1, ~maximizing) : col \in ValidCols(b)}
         IN  IF maximizing THEN SetMax(scores) ELSE SetMin(scores)

FullWindow == last.alpha = -Inf /\ last.beta = Inf

\* C1: a call of minimax (any depth, window and side) or of get_ai_move
\* leaves the grid cell for cell as it found it.
Inv_C1 == last.op \in {"minimax", "get_ai_move"} => board = last.before

\* A maximizing search that broke out of its loop on alpha >= beta with
\* columns left to try.
Wit_C1 ==
    /\ last.op = "minimax"
    /\ last.maximizing
    /\ last.col # None
    /\ last.score >= last.beta
    /\ \E col \in ValidCols(last.before) : col > last.col
    /\ board = last.before

\* C4: with the full window, the score minimax returns is the score of the
\* same search without pruning.
Inv_C4 ==
    (last.op = "minimax" /\ FullWindow) =>
        last.score = Exhaustive(last.before, last.depth, last.maximizing)

\* At depth 2 the second column's replies are cut short: its first reply
\* already scores no more than the first column is worth.
PrunesAtDepth2(b) ==
    LET moves == get_valid_moves(b)
    IN  /\ ~check_winner(b, 1) /\ ~check_winner(b, 2)
        /\ Len(moves) >= 2
        /\ LET b2 == Child(b, moves[2], 2)
               replies == get_valid_moves(b2)
           IN  /\ ~check_winner(b2, 2)
               /\ Len(replies) >= 2
               /\ Exhaustive(Child(b2, replies[1], 1), 0, TRUE)
                    <= Exhaustive(Child(b, moves[1], 2), 1, FALSE)

\* A full-window search of depth 2 that pruned.
Wit_C4 ==
    /\ last.op = "minimax"
    /\ FullWindow
    /\ last.maximizing
    /\ last.depth = 2
    /\ PrunesAtDepth2(last.before)
    /\ last.score = Exhaustive(last.before, 2, TRUE)

\* The columns whose unpruned value, once PlayerB has played there, is the
\* greatest.
BestCols(b, depth) ==
    LET value == [col \in ValidCols(b) |-> Exhaustive(Child(b, col, 2), depth - 1, FALSE)]
        best == SetMax({value[col] : col \in ValidCols(b)})
    IN  {col \in ValidCols(b) : value[col] = best}

SearchesAsMax ==
    /\ last.op = "minimax"
    /\ FullWindow
    /\ last.maximizing
    /\ last.depth >= 1
    /\ ~check_winner(last.before, 1)
    /\ ~check_winner(last.before, 2)
    /\ ValidCols(last.before) # {}

\* C9: a maximizing full-window search of depth >= 1 on a grid without a
\* winner returns the lowest of the columns with the greatest unpruned value.
Inv_C9 == SearchesAsMax => last.col = SetMin(BestCols(last.before, last.depth))

\* A search of depth 2 in which a later column ties with the one returned.
Wit_C9 ==
    /\ SearchesAsMax
    /\ last.depth >= 2
    /\ \E col \in BestCols(last.before, last.depth) : col > last.col
    /\ last.col = SetMin(BestCols(last.before, last.depth))

\* The valid columns where a piece of player completes four in a row.
WinningCols(b, player) ==
    {col \in ValidCols(b) : check_winner(Child(b, col, player), player)}

\* C2: when PlayerB has a column that completes four in a row, get_ai_move
\* returns the lowest such column, whatever the depth.
Inv_C2 ==
    (last.op = "get_ai_move" /\ WinningCols(last.before, 2) # {}) =>
        last.col = SetMin(WinningCols(last.before, 2))

\* get_ai_move(0), where the search itself would name no column, taking a
\* win that PlayerB did not have on the grid yet.
Wit_C2 ==
    /\ last.op = "get_ai_move"
    /\ last.depth = 0
    /\ ~check_winner(last.before, 2)
    /\ WinningCols(last.before, 2) # {}
    /\ last.col = SetMin(WinningCols(last.before, 2))

\* C3: when PlayerB has no winning column and PlayerA has one, get_ai_move
\* returns the lowest column in which PlayerA would complete four in a row.
Inv_C3 ==
    (/\ last.op = "get_ai_move"
     /\ WinningCols(last.before, 2) = {}
     /\ WinningCols(last.before, 1) # {}) =>
        last.col = SetMin(WinningCols(last.before, 1))

\* get_ai_move blocking a win PlayerA did not have on the grid yet.
Wit_C3 ==
    /\ last.op = "get_ai_move"
    /\ WinningCols(last.before, 2) = {}
    /\ ~check_winner(last.before, 1)
    /\ WinningCols(last.before, 1) # {}
    /\ last.col = SetMin(WinningCols(last.before, 1))

\* C8: on the empty grid of 6 rows and 7 columns get_ai_move(4) returns the
\* centre column 3.
Inv_C8 ==
    (/\ last.op = "get_ai_move"
     /\ rows = 6 /\ cols = 7
     /\ last.before = EmptyBoard(6, 7)
     /\ last.depth = 4) =>
        last.col = 3

\* The first AI move of the default game has been asked for.
Wit_C8 ==
    /\ last.op = "get_ai_move"
    /\ rows = 6 /\ cols = 7
    /\ last.before = EmptyBoard(6, 7)
    /\ last.depth = 4
    /\ last.col = 3

\* C10: on a grid with a valid move get_ai_move(depth >= 1) returns a valid
\* column, never None, also when a player already has four in a row; and an
\* AI turn of play_game leaves the grid with exactly one more cell, a
\* PlayerB piece where there was none.
Inv_C10 ==
    /\ (last.op = "get_ai_move" /\ last.depth >= 1 /\ ValidCols(last.before) # {}) =>
          /\ last.col # None
          /\ last.col \in ValidCols(last.before)
    /\ last.op = "ai_turn" =>
          /\ last.col \in ValidCols(last.before)
          /\ \E row \in 0..(rows - 1) :
               /\ last.before[row][last.col] = 0
               /\ board = [last.before EXCEPT ![row][last.col] = 2]

\* get_ai_move naming a valid column on a grid somebody has already won.
Wit_C10 ==
    /\ last.op = "get_ai_move"
    /\ last.depth >= 1
    /\ check_winner(last.before, 1) \/ check_winner(last.before, 2)
    /\ last.col \in ValidCols(last.before)

====
